---- MODULE Spec2Model ----
(***************************************************************************)
(* A model of the non-profit QR code generator:                            *)
(*   - the persistence wrapper (saveUser, updateVisit, saveQRCode) run     *)
(*     against the remote users / visits / qr_codes tables, the calls of   *)
(*     different tabs interleaving, one store request at a time;           *)
(*   - the user-profile form (validateEmail, validateEIN, formatEIN,       *)
(*     handleChange, handleSubmit);                                        *)
(*   - the generator view (handleUserSubmit, generateAIText,               *)
(*     downloadImage and its placement of the image on the PDF page);      *)
(*   - the logo intake widget (validateImage, processImage, handleRemove). *)
(* Every await of the source is a step boundary: the code between two      *)
(* awaits is one action.                                                   *)
(***************************************************************************)
EXTENDS Integers, Sequences, FiniteSets, TLC

\* ------------------------------------------------------------------ bounds
\* most rows the users table is let grow to
MaxUsers == 2

\* ---------------------------------------------------------------- constants
\* APP_IDS.QR_CODE_GENERATOR
QR_CODE_GENERATOR == "qr-gen-v1"
\* the id of another application sharing the users table
OTHER_APP == "other-app"

\* the error object of a failed store request (its message)
StoreError == "store error"
\* the error of maybeSingle() when more than one row matches
MultipleRows == "multiple rows returned"

\* saveUser calls that can be outstanding at once; in SpecStore each is the
\* call of a different tab or session
Calls == {"call1", "call2"}

\* Text is a sequence of one-character strings, so that the regular
\* expressions and the EIN formatting work on its characters.
\* JavaScript undefined / SQL NULL for an optional text field: no text
Undefined == <<"<undefined>">>

EmailA == <<"a", "@", "x", ".", "o", "r", "g">>
EmailB == <<"b", "@", "x", ".", "o", "r", "g">>
Ann == <<"A", "n", "n">>
Bob == <<"B", "o", "b">>
Org == <<"O", "r", "g">>
Org0 == <<"O", "r", "g", "0">>
Ein12 == <<"1", "2", "-", "3", "4", "5", "6", "7", "8", "9">>
Ein98 == <<"9", "8", "-", "7", "6", "5", "4", "3", "2", "1">>

Emails == {EmailA, EmailB}
Names == {Bob}
\* the organization and the EIN of a submission: both left blank, the EIN
\* alone given, both given
Profiles == {<<<<>>, Undefined>>, <<<<>>, Ein12>>, <<Org, Ein12>>}

\* the argument of saveUser: Omit<User, 'id' | 'created_at' | 'app_ids'>
UserDatas ==
    {[email |-> e, name |-> n, organization |-> p[1], ein |-> p[2]] :
        e \in Emails, n \in Names, p \in Profiles}

\* null: no user row
NoRow ==
    [id |-> 0, email |-> <<>>, name |-> <<>>, organization |-> Undefined,
     ein |-> Undefined, app_ids |-> <<>>]

VARIABLES
    users,          \* the users table, in insertion order; id = position
    visits,         \* the visits table: a set of rows keyed by (user_id, app_id)
    pc,             \* per call: where the saveUser call stands
    arg,            \* per call: userData, the argument of the call
    existingUser,   \* per call: the row the lookup returned, or NoRow
    result,         \* per call: the row saveUser returned
    err,            \* per call: the error saveUser threw ("" if none)
    pre,            \* per call: the users table when the call started
    solo,           \* per call: no other call has overlapped this one
    log,            \* per call: the store requests the call has issued
    failed,         \* per call: the request that failed ("" if none)
    vpc,            \* per caller: where its direct updateVisit call stands
    varg,           \* per caller: userId and appId of that call
    vresult,        \* per caller: what that call returned (NoVisit for null)
    successes,      \* per (user id, app id): the updateVisit calls that succeeded
    raced,          \* the (user id, app id) pairs two calls overlapped on
    formData,       \* UserForm: the name, email, organization and ein fields
    emailError,     \* UserForm: the message under the email field
    einError,       \* UserForm: the message under the EIN field
    isSubmitting,   \* QRCodeGenerator: a user save is under way
    user,           \* QRCodeGenerator: the bound user row, or NoRow (null)
    error,          \* QRCodeGenerator: the page-level banner ("" if none)
    ignored,        \* the last user action that had no effect: a click on a
                    \* disabled button, or a handler's early return
    openai,         \* QRCodeGenerator: an API key is configured
    url,            \* QRCodeGenerator: the target URL
    orgDescription, \* QRCodeGenerator: the organization description
    urlPurpose,     \* QRCodeGenerator: the purpose of the URL
    qrColor,        \* QRCodeGenerator: the foreground colour
    bgColor,        \* QRCodeGenerator: the background colour
    size,           \* QRCodeGenerator: the size in pixels
    logo,           \* QRCodeGenerator: the logo's data-URL, or NoLogo (null)
    isGenerating,   \* QRCodeGenerator: a generation request is under way
    aiRequests,     \* the generation requests in flight, oldest first
    qr_codes,       \* the qr_codes table, in insertion order
    downloads,      \* the download actions started, oldest first
    placement,      \* the image of the PDF saved last: where addImage put it
    uploadError,    \* LogoUpload: the message under the drop zone
    preview,        \* LogoUpload: the preview's data-URL, or NoLogo (null)
    uploads,        \* the uploads in flight (processImage calls), oldest first
    settled         \* the upload that ended last: its file, how it ended,
                    \* the message it set and its calls of onLogoChange

storeVars == <<users, visits>>
visitVars == <<vpc, varg, vresult, successes, raced>>
callVars == <<pc, arg, existingUser, result, err, pre, solo, log, failed, visitVars>>
formVars == <<formData, emailError, einError>>
submitVars == <<isSubmitting, user>>
fieldVars == <<url, orgDescription, urlPurpose, qrColor, bgColor, size, logo>>
aiVars == <<openai, isGenerating, aiRequests>>
downloadVars == <<qr_codes, downloads, placement>>
uploadVars == <<uploadError, preview, uploads, settled>>
viewVars ==
    <<formVars, submitVars, error, ignored, fieldVars, aiVars, downloadVars,
      uploadVars>>
vars == <<storeVars, callVars, viewVars>>

\* ------------------------------------------------------------ pure helpers
Includes(seq, x) == \E i \in 1..Len(seq) : seq[i] = x

\* x || undefined for an optional string: '' and undefined both give undefined
OrUndefined(x) == IF x = <<>> \/ x = Undefined THEN Undefined ELSE x

\* a string is truthy when it is neither '' nor undefined
Truthy(x) == x # <<>> /\ x # Undefined

\* saveUser: cleanUserData
CleanUserData(userData) ==
    [email |-> userData.email,
     name |-> userData.name,
     organization |-> OrUndefined(userData.organization),
     ein |-> OrUndefined(userData.ein)]

\* the rows a select ... eq('email', email) matches
RowsByEmail(table, email) == {i \in 1..Len(table) : table[i].email = email}

\* saveUser: updatedAppIds, the existing list with the generator's id pushed
\* when it is missing
UpdatedAppIdsDropsPrior(existing) == <<QR_CODE_GENERATOR>>
UpdatedAppIds(existing) ==
    IF Includes(existing.app_ids, QR_CODE_GENERATOR)
    THEN existing.app_ids
    ELSE Append(existing.app_ids, QR_CODE_GENERATOR)

\* saveUser: the row after update({app_ids, ...only fields that have values})
UpdatedRowAppIdsOnly(row, c, ids) == [row EXCEPT !.app_ids = ids]
UpdatedRowOverwrites(row, c, ids) ==
    [row EXCEPT !.app_ids = ids, !.name = c.name,
                !.organization = c.organization, !.ein = c.ein]
UpdatedRow(row, c, ids) ==
    [row EXCEPT
        !.app_ids = ids,
        !.name = IF Truthy(c.name) THEN c.name ELSE @,
        !.organization = IF Truthy(c.organization) THEN c.organization ELSE @,
        !.ein = IF Truthy(c.ein) THEN c.ein ELSE @]

\* saveUser: the row insert([{...cleanUserData, app_ids: [QR_CODE_GENERATOR]}])
\* creates; the store assigns the id
InsertedRow(table, c) ==
    [id |-> Len(table) + 1, email |-> c.email, name |-> c.name,
     organization |-> c.organization, ein |-> c.ein,
     app_ids |-> <<QR_CODE_GENERATOR>>]

\* updateVisit: the row the upsert writes for (userId, appId)
VisitRow(userId, appId) ==
    [user_id |-> userId, app_id |-> appId, visit_count |-> 1]

\* upsert with onConflict 'user_id,app_id': the row of the same key is replaced
Upsert(table, row) ==
    {v \in table : ~(v.user_id = row.user_id /\ v.app_id = row.app_id)}
        \cup {row}

\* ------------------------------------------------------- the user form
Digits == {"0", "1", "2", "3", "4", "5", "6", "7", "8", "9"}
Letters ==
    {"a", "b", "c", "d", "e", "f", "g", "h", "i", "j", "k", "l", "m", "n", "o",
     "p", "q", "r", "s", "t", "u", "v", "w", "x", "y", "z",
     "A", "B", "C", "D", "E", "F", "G", "H", "I", "J", "K", "L", "M", "N",
     "O", "P", "Q", "R", "S", "T", "U", "V", "W", "X", "Y", "Z"}

\* emailRegex: /^[a-zA-Z0-9._%+-]+@[a-zA-Z0-9.-]+\.[a-zA-Z]{2,}$/
LocalChars == Letters \cup Digits \cup {".", "_", "%", "+", "-"}
DomainChars == Letters \cup Digits \cup {".", "-"}

AllIn(text, from, to, class) == \A i \in from..to : text[i] \in class

\* emailRegex.test(email): a local part, "@", a domain part, ".", and two or
\* more letters
EmailRegexTest(email) ==
    \E at \in 2..Len(email), dot \in 3..Len(email) :
        /\ email[at] = "@"
        /\ AllIn(email, 1, at - 1, LocalChars)
        /\ dot > at + 1
        /\ AllIn(email, at + 1, dot - 1, DomainChars)
        /\ email[dot] = "."
        /\ Len(email) - dot >= 2
        /\ AllIn(email, dot + 1, Len(email), Letters)

\* einRegex.test(ein): /^\d{2}-\d{7}$/
EinRegexTest(ein) ==
    /\ Len(ein) = 10
    /\ AllIn(ein, 1, 2, Digits)
    /\ ein[3] = "-"
    /\ AllIn(ein, 4, 10, Digits)

\* ------------------------------------------------------------------- Init
\* rows the table may hold before this page is opened: created by an earlier
\* visit, or by another application that shares the table
InitialRows ==
    {[id |-> 1, email |-> EmailA, name |-> Ann, organization |-> o,
      ein |-> e, app_ids |-> a] :
        <<o, e>> \in {<<Undefined, Undefined>>, <<Org0, Ein98>>},
        a \in {<<>>, <<OTHER_APP>>, <<QR_CODE_GENERATOR, OTHER_APP>>}}

InitStore ==
    /\ users \in {<<>>} \cup {<<r>> : r \in InitialRows}
    /\ visits = {}

\* the (userId, appId) pairs a visit row can be stored for
VisitKeys == (1..MaxUsers) \X {QR_CODE_GENERATOR}
\* the arguments of an updateVisit call that is not under way
NoKey == <<0, "">>
\* null, as updateVisit returns it
NoVisit == [user_id |-> 0, app_id |-> "", visit_count |-> 0]

\* userData of a call that is not under way
NoData ==
    [email |-> <<>>, name |-> <<>>, organization |-> Undefined, ein |-> Undefined]

InitCalls ==
    /\ pc = [t \in Calls |-> "idle"]
    /\ arg = [t \in Calls |-> NoData]
    /\ existingUser = [t \in Calls |-> NoRow]
    /\ result = [t \in Calls |-> NoRow]
    /\ err = [t \in Calls |-> ""]
    /\ pre = [t \in Calls |-> <<>>]
    /\ solo = [t \in Calls |-> TRUE]
    /\ log = [t \in Calls |-> <<>>]
    /\ failed = [t \in Calls |-> ""]
    /\ vpc = [t \in Calls |-> "idle"]
    /\ varg = [t \in Calls |-> NoKey]
    /\ vresult = [t \in Calls |-> NoVisit]
    /\ successes = [k \in VisitKeys |-> 0]
    /\ raced = {}


\* the messages of the form and of the view
EmailRequired == "Email is required"
EmailInvalid == "Please enter a valid email address"
EinInvalid == "EIN must be in format: XX-XXXXXXX"
SaveUserFallback == "Error saving user data"

\* value.replace(/\D/g, ''): the digits of value, in order
RECURSIVE OnlyDigits(_)
OnlyDigits(value) ==
    IF value = <<>> THEN <<>>
    ELSE IF Head(value) \in Digits
         THEN <<Head(value)>> \o OnlyDigits(Tail(value))
         ELSE OnlyDigits(Tail(value))

\* digits.slice(from, to), with from and to counted from 0 as in the source
Slice(text, from, to) ==
    SubSeq(text, from + 1, IF to < Len(text) THEN to ELSE Len(text))

\* formatEIN(value)
formatEINKeepsAll(value) ==
    IF Len(value) <= 2 THEN value
    ELSE Slice(value, 0, 2) \o <<"-">> \o Slice(value, 2, 9)
formatEIN(value) ==
    LET digits == OnlyDigits(value) IN
        IF Len(digits) <= 2 THEN digits
        ELSE Slice(digits, 0, 2) \o <<"-">> \o Slice(digits, 2, 9)

\* validateEmail(email): the message it sets; it returns true iff that is ''
validateEmail(email) ==
    IF email = <<>> THEN EmailRequired
    ELSE IF ~EmailRegexTest(email) THEN EmailInvalid
    ELSE ""

\* validateEIN(ein): the message it sets; it returns true iff that is ''
validateEIN(ein) ==
    IF ein = <<>> THEN ""
    ELSE IF ~EinRegexTest(ein) THEN EinInvalid
    ELSE ""

\* handleSubmit: submitData, the form data with an empty EIN left out
SubmitDataKeepsEmpty(data) == data
SubmitData(data) ==
    [data EXCEPT !.ein = IF @ = <<>> THEN Undefined ELSE @]

\* the submit button's disabled attribute
SubmitDisabledIgnoresSubmitting == emailError # "" \/ einError # ""
SubmitDisabled == isSubmitting \/ emailError # "" \/ einError # ""

\* the browser's own check of the required name (minLength 2) and the
\* required email; its syntax check of type="email" is not modelled
ConstraintsMet == Len(formData.name) >= 2 /\ formData.email # <<>>

\* useState(256)
InitialSize == 256
\* logo === null
NoLogo == <<>>
\* no upload has ended yet
NoUpload == [outcome |-> "none"]

\* no PDF has been saved yet; lengths are fractions <<numerator, denominator>>
NoPlacement ==
    [img |-> <<0, 0>>, x |-> <<0, 1>>, y |-> <<0, 1>>, width |-> <<0, 1>>,
     height |-> <<0, 1>>]

\* the form is rendered only while no user is bound
FormShown == user = NoRow

\* the page's state apart from the bound user
InitFields ==
    /\ formData = [name |-> <<>>, email |-> <<>>, organization |-> <<>>,
                   ein |-> <<>>]
    /\ emailError = ""
    /\ einError = ""
    /\ isSubmitting = FALSE
    /\ error = ""
    /\ ignored = ""
    /\ url = <<>>
    /\ orgDescription = <<>>
    /\ urlPurpose = <<>>
    /\ qrColor = "#000000"
    /\ bgColor = "#ffffff"
    /\ size = InitialSize
    /\ logo = NoLogo
    /\ isGenerating = FALSE
    /\ aiRequests = <<>>
    /\ qr_codes = <<>>
    /\ downloads = <<>>
    /\ placement = NoPlacement
    /\ uploadError = ""
    /\ preview = NoLogo
    /\ uploads = <<>>
    /\ settled = NoUpload

InitView ==
    /\ user = NoRow
    /\ InitFields

\* the page is opened with an API key configured, against a users table that
\* may hold a row already
Init == InitStore /\ InitCalls /\ InitView /\ openai = TRUE

\* the page is opened with or without an API key, against empty tables
InitPage ==
    /\ users = <<>>
    /\ visits = {}
    /\ InitCalls
    /\ InitView
    /\ openai \in BOOLEAN

\* ---------------------------------------------------------------- saveUser
\* the updateVisit calls in flight for one (userId, appId): the direct ones
\* and those saveUser made
InFlight(key) ==
    {<<"direct", t>> : t \in {o \in Calls : vpc[o] = "upsert" /\ varg[o] = key}}
        \cup {<<"saveUser", t>> : t \in {o \in Calls :
                  pc[o] = "visit" /\ <<result[o].id, QR_CODE_GENERATOR>> = key}}

Active(t) == pc[t] \notin {"idle", "returned", "threw"}

\* saveUser is called: cleanUserData is prepared and the lookup is issued
saveUser(t, userData) ==
    /\ pc[t] = "idle"
    /\ Len(users) + Cardinality({o \in Calls : Active(o)}) < MaxUsers
    /\ pc' = [pc EXCEPT ![t] = "select"]
    /\ arg' = [arg EXCEPT ![t] = userData]
    /\ existingUser' = [existingUser EXCEPT ![t] = NoRow]
    /\ result' = [result EXCEPT ![t] = NoRow]
    /\ err' = [err EXCEPT ![t] = ""]
    /\ pre' = [pre EXCEPT ![t] = users]
    /\ solo' = [o \in Calls |->
                  IF o = t THEN \A p \in Calls \ {t} : ~Active(p)
                  ELSE IF Active(o) THEN FALSE ELSE solo[o]]
    /\ log' = [log EXCEPT ![t] = <<"select">>]
    /\ failed' = [failed EXCEPT ![t] = ""]
    /\ UNCHANGED <<storeVars, visitVars>>

\* the call throws: every store error is rethrown by the outer catch
Throw(t, e) ==
    /\ pc' = [pc EXCEPT ![t] = "threw"]
    /\ err' = [err EXCEPT ![t] = e]
    /\ failed' = [failed EXCEPT ![t] = pc[t]]
    /\ UNCHANGED <<arg, existingUser, result, pre, solo, log, visitVars>>

\* the call returns row
Return(t, row) ==
    /\ pc' = [pc EXCEPT ![t] = "returned"]
    /\ result' = [result EXCEPT ![t] = row]
    /\ UNCHANGED <<arg, existingUser, err, pre, solo, log, failed, visitVars>>

\* select('*').eq('email', email).maybeSingle() fails
saveUser_selectError(t) ==
    /\ pc[t] = "select"
    /\ Throw(t, StoreError)
    /\ UNCHANGED storeVars

\* select('*').eq('email', email).maybeSingle() answers, and the code runs
\* up to its next request or its return
saveUser_select(t) ==
    /\ pc[t] = "select"
    /\ LET found == RowsByEmail(users, CleanUserData(arg[t]).email) IN
        IF Cardinality(found) > 1
        THEN Throw(t, MultipleRows)
        ELSE IF found = {}
        THEN /\ pc' = [pc EXCEPT ![t] = "insert"]
             /\ log' = [log EXCEPT ![t] = Append(@, "insert")]
             /\ UNCHANGED <<arg, existingUser, result, err, pre, solo, failed,
                            visitVars>>
        ELSE LET row == users[CHOOSE i \in found : TRUE] IN
             IF ~Includes(row.app_ids, QR_CODE_GENERATOR)
             THEN /\ pc' = [pc EXCEPT ![t] = "update"]
                  /\ existingUser' = [existingUser EXCEPT ![t] = row]
                  /\ log' = [log EXCEPT ![t] = Append(@, "update")]
                  /\ UNCHANGED <<arg, result, err, pre, solo, failed, visitVars>>
             ELSE /\ pc' = [pc EXCEPT ![t] = "returned"]
                  /\ existingUser' = [existingUser EXCEPT ![t] = row]
                  /\ result' = [result EXCEPT ![t] = row]
                  /\ UNCHANGED <<arg, err, pre, solo, log, failed, visitVars>>
    /\ UNCHANGED storeVars

\* update({...}).eq('id', existingUser.id).select().single() fails
saveUser_updateError(t) ==
    /\ pc[t] = "update"
    /\ Throw(t, StoreError)
    /\ UNCHANGED storeVars

\* update({...}).eq('id', existingUser.id).select().single() succeeds
saveUser_update(t) ==
    /\ pc[t] = "update"
    /\ LET id == existingUser[t].id
           row == UpdatedRow(users[id], CleanUserData(arg[t]), UpdatedAppIds(existingUser[t]))
       IN /\ users' = [users EXCEPT ![id] = row]
          /\ Return(t, row)
    /\ UNCHANGED visits

\* insert([...]).select().single() fails
saveUser_insertError(t) ==
    /\ pc[t] = "insert"
    /\ Throw(t, StoreError)
    /\ UNCHANGED storeVars

\* insert([...]).select().single() succeeds; updateVisit is called next
saveUser_insert(t) ==
    /\ pc[t] = "insert"
    /\ LET row == InsertedRow(users, CleanUserData(arg[t])) IN
        /\ users' = Append(users, row)
        /\ pc' = [pc EXCEPT ![t] = "visit"]
        /\ result' = [result EXCEPT ![t] = row]
        /\ log' = [log EXCEPT ![t] = Append(@, "visit")]
        /\ raced' = IF InFlight(<<row.id, QR_CODE_GENERATOR>>) # {}
                    THEN raced \cup {<<row.id, QR_CODE_GENERATOR>>}
                    ELSE raced
    /\ UNCHANGED <<visits, arg, existingUser, err, pre, solo, failed, vpc, varg,
                   vresult, successes>>

\* updateVisit(newUser.id, QR_CODE_GENERATOR): the upsert succeeds
updateVisit(t) ==
    /\ pc[t] = "visit"
    /\ visits' = Upsert(visits, VisitRow(result[t].id, QR_CODE_GENERATOR))
    /\ successes' = [successes EXCEPT ![<<result[t].id, QR_CODE_GENERATOR>>] = @ + 1]
    /\ pc' = [pc EXCEPT ![t] = "returned"]
    /\ UNCHANGED <<users, arg, existingUser, result, err, pre, solo, log, failed,
                   vpc, varg, vresult, raced>>

\* updateVisit: the upsert fails; the error is swallowed and null returned
updateVisitErrorRethrown(t) ==
    /\ pc[t] = "visit"
    /\ Throw(t, StoreError)
    /\ UNCHANGED storeVars
updateVisitError(t) ==
    /\ pc[t] = "visit"
    /\ pc' = [pc EXCEPT ![t] = "returned"]
    /\ failed' = [failed EXCEPT ![t] = "visit"]
    /\ UNCHANGED <<storeVars, arg, existingUser, result, err, pre, solo, log,
                   visitVars>>

\* the caller of saveUser takes the returned row or the thrown error
Settle(t) ==
    /\ pc[t] \in {"returned", "threw"}
    /\ pc' = [pc EXCEPT ![t] = "idle"]
    /\ arg' = [arg EXCEPT ![t] = NoData]
    /\ existingUser' = [existingUser EXCEPT ![t] = NoRow]
    /\ result' = [result EXCEPT ![t] = NoRow]
    /\ err' = [err EXCEPT ![t] = ""]
    /\ pre' = [pre EXCEPT ![t] = <<>>]
    /\ solo' = [solo EXCEPT ![t] = TRUE]
    /\ log' = [log EXCEPT ![t] = <<>>]
    /\ failed' = [failed EXCEPT ![t] = ""]
    /\ UNCHANGED <<storeVars, visitVars>>

SaveUserStep(t) ==
    \/ saveUser_selectError(t)
    \/ saveUser_select(t)
    \/ saveUser_updateError(t)
    \/ saveUser_update(t)
    \/ saveUser_insertError(t)
    \/ saveUser_insert(t)
    \/ updateVisit(t)
    \/ updateVisitError(t)

NextStore ==
    /\ \E t \in Calls :
          \/ \E u \in UserDatas : saveUser(t, u)
          \/ SaveUserStep(t)
          \/ Settle(t)
    /\ UNCHANGED viewVars

SpecStore == Init /\ [][NextStore]_vars

\* ------------------------------------------------- updateVisit, called alone
MaxVisits == 2

\* the arguments of the direct calls; 0 and "" stand for a missing id
VisitUserIds == {0, 1}
VisitAppIds == {"", QR_CODE_GENERATOR}

\* the updateVisit calls that have succeeded so far, over all keys
RECURSIVE Total(_, _)
Total(count, keys) ==
    IF keys = {} THEN 0
    ELSE LET k == CHOOSE x \in keys : TRUE IN count[k] + Total(count, keys \ {k})

\* updateVisit(userId, appId) is called: without one of the ids it returns
\* null at once, else the upsert is issued
updateVisit_call(t, userId, appId) ==
    /\ vpc[t] = "idle"
    /\ Total(successes, VisitKeys) + Cardinality({o \in Calls : vpc[o] = "upsert"})
           < MaxVisits
    /\ varg' = [varg EXCEPT ![t] = <<userId, appId>>]
    /\ vresult' = [vresult EXCEPT ![t] = NoVisit]
    /\ IF userId = 0 \/ appId = ""
       THEN /\ vpc' = [vpc EXCEPT ![t] = "returned"]
            /\ UNCHANGED raced
       ELSE /\ vpc' = [vpc EXCEPT ![t] = "upsert"]
            /\ raced' = IF InFlight(<<userId, appId>>) # {}
                        THEN raced \cup {<<userId, appId>>}
                        ELSE raced
    /\ UNCHANGED <<storeVars, pc, arg, existingUser, result, err, pre, solo, log,
                   failed, successes>>

\* the upsert succeeds: the row of (userId, appId) is written and returned
updateVisit_upsert(t) ==
    /\ vpc[t] = "upsert"
    /\ LET row == VisitRow(varg[t][1], varg[t][2]) IN
        /\ visits' = Upsert(visits, row)
        /\ vresult' = [vresult EXCEPT ![t] = row]
    /\ successes' = [successes EXCEPT ![varg[t]] = @ + 1]
    /\ vpc' = [vpc EXCEPT ![t] = "returned"]
    /\ UNCHANGED <<users, pc, arg, existingUser, result, err, pre, solo, log,
                   failed, varg, raced>>

\* the upsert fails: the error is caught and null returned
updateVisit_upsertError(t) ==
    /\ vpc[t] = "upsert"
    /\ vpc' = [vpc EXCEPT ![t] = "returned"]
    /\ vresult' = [vresult EXCEPT ![t] = NoVisit]
    /\ UNCHANGED <<storeVars, pc, arg, existingUser, result, err, pre, solo, log,
                   failed, varg, successes, raced>>

\* the caller of updateVisit takes what it returned
updateVisit_settle(t) ==
    /\ vpc[t] = "returned"
    /\ vpc' = [vpc EXCEPT ![t] = "idle"]
    /\ varg' = [varg EXCEPT ![t] = NoKey]
    /\ vresult' = [vresult EXCEPT ![t] = NoVisit]
    /\ UNCHANGED <<storeVars, pc, arg, existingUser, result, err, pre, solo, log,
                   failed, successes, raced>>

\* one saveUser call at a time, and updateVisit called directly beside it
NextVisit ==
    /\ \/ \E u \in UserDatas : saveUser("call1", u)
       \/ SaveUserStep("call1")
       \/ Settle("call1")
       \/ \E t \in Calls :
             \/ \E userId \in VisitUserIds, appId \in VisitAppIds :
                   updateVisit_call(t, userId, appId)
             \/ updateVisit_upsert(t)
             \/ updateVisit_upsertError(t)
             \/ updateVisit_settle(t)
    /\ UNCHANGED viewVars

SpecVisit == Init /\ [][NextVisit]_vars

\* ------------------------------------------------- the form and its submit
\* handleChange for the input called name, with the input's new value
handleChange(name, value) ==
    /\ FormShown
    /\ IF name = "ein"
       THEN /\ formData' = [formData EXCEPT !.ein = formatEIN(value)]
            /\ einError' = validateEIN(formatEIN(value))
            /\ UNCHANGED emailError
       ELSE /\ formData' = [formData EXCEPT ![name] = value]
            /\ emailError' = IF name = "email" THEN validateEmail(value)
                             ELSE emailError
            /\ UNCHANGED einError
    /\ UNCHANGED <<storeVars, callVars, submitVars, error, ignored, fieldVars,
                   aiVars, downloadVars, uploadVars>>

\* handleUserSubmit up to its await: the flags are set and saveUser is called
handleUserSubmit(t, userData) ==
    /\ isSubmitting' = TRUE
    /\ error' = ""
    /\ saveUser(t, userData)
    /\ UNCHANGED user

\* a user action that has no effect
Ignore(what) ==
    /\ ignored' = what
    /\ UNCHANGED <<storeVars, callVars, formVars, submitVars, error, fieldVars,
                   aiVars, downloadVars, uploadVars>>

\* handleSubmit: the form's submit event
handleSubmit ==
    /\ IF validateEmail(formData.email) # ""
       THEN /\ emailError' = validateEmail(formData.email)
            /\ UNCHANGED <<einError, storeVars, callVars, submitVars, error>>
       ELSE IF validateEIN(formData.ein) # ""
       THEN /\ emailError' = ""
            /\ einError' = validateEIN(formData.ein)
            /\ UNCHANGED <<storeVars, callVars, submitVars, error>>
       ELSE /\ emailError' = ""
            /\ einError' = ""
            /\ \E t \in Calls : handleUserSubmit(t, SubmitData(formData))
    /\ UNCHANGED <<formData, ignored, fieldVars, aiVars, downloadVars, uploadVars>>

\* the submit button is pressed (or Enter, in a field of the form): nothing
\* happens while the button is disabled or the browser's check fails
Submit ==
    /\ FormShown
    /\ IF SubmitDisabled \/ ~ConstraintsMet
       THEN Ignore(IF isSubmitting THEN "submit while submitting"
                   ELSE IF emailError # "" \/ einError # ""
                   THEN "submit with a field error"
                   ELSE "submit of an incomplete form")
       ELSE handleSubmit

\* handleUserSubmit after its await: saveUser has returned or thrown
handleUserSubmit_settledNoFinally(t) ==
    /\ pc[t] \in {"returned", "threw"}
    /\ IF pc[t] = "returned"
       THEN user' = result[t] /\ isSubmitting' = FALSE /\ UNCHANGED error
       ELSE /\ error' = (IF err[t] # "" THEN err[t] ELSE SaveUserFallback)
            /\ UNCHANGED <<user, isSubmitting>>
    /\ Settle(t)
    /\ UNCHANGED <<formVars, ignored, fieldVars, aiVars, downloadVars, uploadVars>>
handleUserSubmit_settled(t) ==
    /\ pc[t] \in {"returned", "threw"}
    /\ IF pc[t] = "returned"
       THEN user' = result[t] /\ UNCHANGED error
       ELSE /\ error' = (IF err[t] # "" THEN err[t] ELSE SaveUserFallback)
            /\ UNCHANGED user
    /\ isSubmitting' = FALSE
    /\ Settle(t)
    /\ UNCHANGED <<formVars, ignored, fieldVars, aiVars, downloadVars, uploadVars>>

\* what the user puts into the inputs
NameInputs == {<<"B">>, Bob}
EmailInputs ==
    {<<>>, EmailA,
     <<"a", "@", "x", ".", "o">>,
     <<"a", "x", ".", "o", "r", "g">>}
OrganizationInputs == {<<>>, Org}
EinValues == {<<>>, Ein12, <<"1", "2", "3">>}

NextForm ==
    \/ \E v \in NameInputs : handleChange("name", v)
    \/ \E v \in EmailInputs : handleChange("email", v)
    \/ \E v \in OrganizationInputs : handleChange("organization", v)
    \/ \E v \in EinValues : handleChange("ein", v)
    \/ Submit
    \/ \E t \in Calls : SaveUserStep(t) /\ UNCHANGED viewVars
    \/ \E t \in Calls : handleUserSubmit_settled(t)

SpecForm == Init /\ [][NextForm]_vars

\* the maxLength of the EIN input
EinMaxLength == 10

\* an edit of the EIN input: a character typed at the end, the last character
\* deleted, or a text pasted over the whole value
EinInputs(current) ==
    {v \in {Append(current, ch) : ch \in {"1", "2", "x", "-"}} :
        Len(v) <= EinMaxLength}
        \cup {SubSeq(current, 1, Len(current) - 1)}
        \cup {Ein12, <<"1", "2", "3", "4", "5", "6", "7", "8", "9", "0">>}

\* the EIN input alone, edited freely
NextEin == \E v \in EinInputs(formData.ein) : handleChange("ein", v)

SpecEin == Init /\ [][NextEin]_vars

\* ----------------------------------------------------- AI text generation
NoApiKey ==
    "OpenAI API key is not configured. Please add your API key to the environment variables."
GenerateFallback == "Error generating AI text. Please try again."
ProviderMessage == "provider message"

\* content?.trim(): the text without its leading and trailing blanks
RECURSIVE TrimStart(_)
TrimStart(text) ==
    IF text # <<>> /\ Head(text) = " " THEN TrimStart(Tail(text)) ELSE text

RECURSIVE TrimEnd(_)
TrimEnd(text) ==
    IF text # <<>> /\ text[Len(text)] = " "
    THEN TrimEnd(SubSeq(text, 1, Len(text) - 1))
    ELSE text

Trim(text) == TrimEnd(TrimStart(text))

\* response.choices[0]?.message?.content?.trim() || ''
GeneratedTextUntrimmed(content) ==
    IF content = Undefined THEN <<>> ELSE content
GeneratedText(content) ==
    IF content = Undefined THEN <<>> ELSE Trim(content)

\* generateAIText(type) up to its await
generateAITextUnguarded(type) ==
    /\ openai
    /\ error' = ""
    /\ isGenerating' = TRUE
    /\ aiRequests' = Append(aiRequests, type)
    /\ UNCHANGED <<storeVars, callVars, formVars, submitVars, fieldVars,
                   openai, downloadVars, uploadVars, ignored>>
generateAIText(type) ==
    /\ IF isGenerating
       THEN Ignore("generate while generating")
       ELSE IF ~openai
       THEN /\ error' = NoApiKey
            /\ UNCHANGED <<isGenerating, aiRequests, ignored>>
       ELSE /\ error' = ""
            /\ isGenerating' = TRUE
            /\ aiRequests' = Append(aiRequests, type)
            /\ UNCHANGED ignored
    /\ UNCHANGED <<storeVars, callVars, formVars, submitVars, fieldVars,
                   openai, downloadVars, uploadVars>>

\* aiRequests without its i-th request
Without(seq, i) == SubSeq(seq, 1, i - 1) \o SubSeq(seq, i + 1, Len(seq))

\* generateAIText after its await: request i is answered with content
generateAIText_answered(i, content) ==
    /\ i \in 1..Len(aiRequests)
    /\ IF aiRequests[i] = "description"
       THEN /\ orgDescription' = GeneratedText(content)
            /\ UNCHANGED urlPurpose
       ELSE /\ urlPurpose' = GeneratedText(content)
            /\ UNCHANGED orgDescription
    /\ isGenerating' = FALSE
    /\ aiRequests' = Without(aiRequests, i)
    /\ UNCHANGED <<storeVars, callVars, formVars, submitVars, error, ignored,
                   url, qrColor, bgColor, size, logo, openai, downloadVars,
                   uploadVars>>

\* generateAIText after its await: request i fails, with the provider's
\* message (message) or without one ("")
generateAIText_failed(i, message) ==
    /\ i \in 1..Len(aiRequests)
    /\ error' = (IF message # "" THEN message ELSE GenerateFallback)
    /\ isGenerating' = FALSE
    /\ aiRequests' = Without(aiRequests, i)
    /\ UNCHANGED <<storeVars, callVars, formVars, submitVars, ignored,
                   fieldVars, openai, downloadVars, uploadVars>>

\* the onChange handlers of the URL, description and purpose inputs
setUrl(value) ==
    /\ url' = value
    /\ UNCHANGED <<storeVars, callVars, formVars, submitVars, error, ignored,
                   orgDescription, urlPurpose, qrColor, bgColor, size, logo,
                   aiVars, downloadVars, uploadVars>>

setOrgDescription(value) ==
    /\ orgDescription' = value
    /\ UNCHANGED <<storeVars, callVars, formVars, submitVars, error, ignored,
                   url, urlPurpose, qrColor, bgColor, size, logo, aiVars,
                   downloadVars, uploadVars>>

setUrlPurpose(value) ==
    /\ urlPurpose' = value
    /\ UNCHANGED <<storeVars, callVars, formVars, submitVars, error, ignored,
                   url, orgDescription, qrColor, bgColor, size, logo, aiVars,
                   downloadVars, uploadVars>>

\* what the user types and what the provider answers
UrlInputs == {<<>>, <<"u">>}
TextInputs == {<<>>, <<"s">>}
Contents == {<<"G">>, <<" ", "G", " ">>, Undefined}
Types == {"description", "purpose"}

NextAI ==
    \/ \E v \in UrlInputs : setUrl(v)
    \/ \E v \in TextInputs : setOrgDescription(v)
    \/ \E v \in TextInputs : setUrlPurpose(v)
    \/ \E type \in Types : generateAIText(type)
    \/ \E i \in 1..Len(aiRequests), c \in Contents :
          generateAIText_answered(i, c)
    \/ \E i \in 1..Len(aiRequests), m \in {"", ProviderMessage} :
          generateAIText_failed(i, m)

SpecAI == InitPage /\ [][NextAI]_vars

\* ---------------------------------------------------------------- download
\* most download actions started
MaxDownloads == 2

DownloadError == "Error downloading image. Please try again."
Formats == {"png", "jpg", "pdf"}

\* the QR configuration downloadImage hands to saveQRCode
QRData ==
    [user_id |-> user.id, url |-> url, org_description |-> orgDescription,
     url_purpose |-> urlPurpose, qr_color |-> qrColor, bg_color |-> bgColor,
     size |-> size, has_logo |-> logo # NoLogo]

\* the file a download of the format saves
FileName(format) ==
    IF format = "png" THEN "qr-code.png"
    ELSE IF format = "jpg" THEN "qr-code.jpg"
    ELSE "qr-code.pdf"

\* ---- the PDF page, in inches; a length is a fraction <<numerator, denominator>>
RECURSIVE GCD(_, _)
GCD(a, b) == IF b = 0 THEN a ELSE GCD(b, a % b)
Abs(n) == IF n < 0 THEN 0 - n ELSE n
\* the fraction in lowest terms, its denominator positive
Q(n, d) ==
    LET g == GCD(Abs(n), Abs(d)) IN
        IF d < 0 THEN <<(0 - n) \div g, (0 - d) \div g>> ELSE <<n \div g, d \div g>>
QMul(a, b) == Q(a[1] * b[1], a[2] * b[2])
QDiv(a, b) == Q(a[1] * b[2], a[2] * b[1])
QSub(a, b) == Q(a[1] * b[2] - b[1] * a[2], a[2] * b[2])
QLess(a, b) == a[1] * b[2] < b[1] * a[2]

pageWidth == Q(17, 2)
pageHeight == Q(11, 1)
margin == Q(1, 2)
maxWidth == QSub(pageWidth, QMul(Q(2, 1), margin))
maxHeight == QSub(pageHeight, QMul(Q(2, 1), margin))

\* where pdf.addImage puts an image of imgProps = <<width, height>> pixels:
\* as wide as the margins allow, or as high as they allow if that is too high
PlacementFullWidth(imgProps) ==
    LET aspectRatio == Q(imgProps[1], imgProps[2])
        height == QDiv(maxWidth, aspectRatio)
    IN [img |-> imgProps, width |-> maxWidth, height |-> height,
        x |-> QDiv(QSub(pageWidth, maxWidth), Q(2, 1)),
        y |-> QDiv(QSub(pageHeight, height), Q(2, 1))]
Placement(imgProps) ==
    LET aspectRatio == Q(imgProps[1], imgProps[2])
        tooHigh == QLess(maxHeight, QDiv(maxWidth, aspectRatio))
        height == IF tooHigh THEN maxHeight ELSE QDiv(maxWidth, aspectRatio)
        width == IF tooHigh THEN QMul(height, aspectRatio) ELSE maxWidth
    IN [img |-> imgProps, width |-> width, height |-> height,
        x |-> QDiv(QSub(pageWidth, width), Q(2, 1)),
        y |-> QDiv(QSub(pageHeight, height), Q(2, 1))]

\* the hidden preview as toPng / toJpeg rasterize it, in pixels
Preview == <<400, 600>>
\* images toPng can give: wider than high, square, higher than wide, of the
\* page box's own proportion (300 x 400), and extreme ones
Pixels == {1, 300, 400, 1000}
Rasters == Pixels \X Pixels

\* downloadImage(format) up to its first await: saveQRCode is called
downloadImageUnguarded(format) ==
    /\ Len(downloads) < MaxDownloads
    /\ downloads' = Append(downloads,
           [format |-> format, qrData |-> QRData, at |-> "saveQRCode",
            insert |-> "pending", file |-> ""])
    /\ UNCHANGED <<storeVars, callVars, formVars, submitVars, error,
                   ignored, fieldVars, aiVars, qr_codes, placement, uploadVars>>
downloadImage(format) ==
    /\ IF user.id = 0
       THEN Ignore("download without user")
       ELSE /\ Len(downloads) < MaxDownloads
            /\ downloads' = Append(downloads,
                   [format |-> format, qrData |-> QRData, at |-> "saveQRCode",
                    insert |-> "pending", file |-> ""])
            /\ UNCHANGED <<storeVars, callVars, formVars, submitVars, error,
                           ignored, fieldVars, aiVars, qr_codes, placement, uploadVars>>

\* download i moves to stage at
Stage(i, at) == [downloads EXCEPT ![i].at = at]

\* saveQRCode: insert([qrData]).select().single() succeeds; downloadImage goes
\* on to rasterize the hidden preview
saveQRCode(i) ==
    /\ i \in 1..Len(downloads)
    /\ downloads[i].at = "saveQRCode"
    /\ qr_codes' = Append(qr_codes, downloads[i].qrData)
    /\ downloads' = [downloads EXCEPT ![i].at = "convert", ![i].insert = "done"]
    /\ UNCHANGED <<storeVars, callVars, formVars, submitVars, error, ignored,
                   fieldVars, aiVars, placement, uploadVars>>

\* saveQRCode: the insert fails and the error is rethrown; downloadImage
\* catches it
saveQRCode_errorSwallowed(i) ==
    /\ i \in 1..Len(downloads)
    /\ downloads[i].at = "saveQRCode"
    /\ downloads' = [downloads EXCEPT ![i].at = "convert", ![i].insert = "failed"]
    /\ UNCHANGED <<storeVars, callVars, formVars, submitVars, ignored, error,
                   fieldVars, aiVars, qr_codes, placement, uploadVars>>
saveQRCode_error(i) ==
    /\ i \in 1..Len(downloads)
    /\ downloads[i].at = "saveQRCode"
    /\ downloads' = [downloads EXCEPT ![i].at = "failed", ![i].insert = "failed"]
    /\ error' = DownloadError
    /\ UNCHANGED <<storeVars, callVars, formVars, submitVars, ignored,
                   fieldVars, aiVars, qr_codes, placement, uploadVars>>

\* downloadImage after toPng / toJpeg, which gave an image of imgProps =
\* <<width, height>> pixels: for a PDF the image is placed on the page; the
\* file is saved (pdf.save, or the click on the synthetic link)
downloadImage_saved(i, imgProps) ==
    /\ i \in 1..Len(downloads)
    /\ downloads[i].at = "convert"
    /\ downloads' =
          [downloads EXCEPT ![i].at = "saved",
                            ![i].file = FileName(downloads[i].format)]
    /\ placement' = IF downloads[i].format = "pdf" THEN Placement(imgProps)
                    ELSE placement
    /\ UNCHANGED <<storeVars, callVars, formVars, submitVars, error, ignored,
                   fieldVars, aiVars, qr_codes, uploadVars>>

\* downloadImage: rasterizing or building the PDF throws
downloadImage_convertError(i) ==
    /\ i \in 1..Len(downloads)
    /\ downloads[i].at = "convert"
    /\ downloads' = Stage(i, "failed")
    /\ error' = DownloadError
    /\ UNCHANGED <<storeVars, callVars, formVars, submitVars, ignored,
                   fieldVars, aiVars, qr_codes, placement, uploadVars>>

NextDownload ==
    \/ handleChange("name", Bob)
    \/ handleChange("email", EmailA)
    \/ Submit
    \/ \E t \in Calls : SaveUserStep(t) /\ UNCHANGED viewVars
    \/ \E t \in Calls : handleUserSubmit_settled(t)
    \/ \E v \in UrlInputs : setUrl(v)
    \/ \E format \in Formats : downloadImage(format)
    \/ \E i \in 1..Len(downloads) :
          \/ saveQRCode(i)
          \/ saveQRCode_error(i)
          \/ downloadImage_saved(i, Preview)
          \/ downloadImage_convertError(i)

InitDownload == InitPage /\ openai = TRUE

SpecDownload == InitDownload /\ [][NextDownload]_vars

\* the page of a user who has registered before any download
Registered == InsertedRow(<<>>, CleanUserData(
    [email |-> EmailA, name |-> Bob, organization |-> <<>>, ein |-> Undefined]))

InitPdf ==
    /\ users = <<Registered>>
    /\ visits \in {{}, {VisitRow(1, QR_CODE_GENERATOR)}}
    /\ InitCalls
    /\ user = Registered
    /\ InitFields
    /\ openai \in BOOLEAN

\* downloads alone, of images of every size
NextPdf ==
    \/ \E format \in Formats : downloadImage(format)
    \/ \E i \in 1..Len(downloads) :
          \/ saveQRCode(i)
          \/ saveQRCode_error(i)
          \/ \E imgProps \in Rasters : downloadImage_saved(i, imgProps)
          \/ downloadImage_convertError(i)

SpecPdf == InitPdf /\ [][NextPdf]_vars

\* ------------------------------------- the user save beside the generation
\* the form is filled in and submitted while texts are generated and a
\* download is asked for
NextFlags ==
    \/ handleChange("name", Bob)
    \/ handleChange("email", EmailA)
    \/ Submit
    \/ \E t \in Calls : SaveUserStep(t) /\ UNCHANGED viewVars
    \/ \E t \in Calls : handleUserSubmit_settled(t)
    \/ \E type \in Types : generateAIText(type)
    \/ \E i \in 1..Len(aiRequests), c \in Contents :
          generateAIText_answered(i, c)
    \/ \E i \in 1..Len(aiRequests), m \in {"", ProviderMessage} :
          generateAIText_failed(i, m)
    \/ downloadImage("png")

\* once the promise of saveUser has settled, the continuation of
\* handleUserSubmit runs: the event loop leaves no settled promise unserved
SpecFlags ==
    /\ InitPage
    /\ [][NextFlags]_vars
    /\ WF_vars(\E t \in Calls : handleUserSubmit_settled(t))

\* ------------------------------------------------------------- logo intake
\* most uploads in flight at once
MaxUploads == 2

NotAnImage == "Please upload an image file"
TooBig == "File size must be less than 5MB"
TooSmallImage == "Image must be at least 100x100 pixels"
TooLargeImage == "Image must be no larger than 2000x2000 pixels"
InvalidImage == "Invalid image file"
ProcessingError == "Error processing image"

\* 5 * 1024 * 1024
MaxFileSize == 5 * 1024 * 1024
MinDimension == 100
MaxDimension == 2000

ImagePng == <<"i", "m", "a", "g", "e", "/", "p", "n", "g">>
ApplicationPdf ==
    <<"a", "p", "p", "l", "i", "c", "a", "t", "i", "o", "n", "/", "p", "d", "f">>

\* text.startsWith(prefix)
StartsWith(text, prefix) ==
    Len(text) >= Len(prefix) /\ SubSeq(text, 1, Len(prefix)) = prefix

\* the candidate files: MIME type, size in bytes, and the natural width and
\* height the image decodes to (0 x 0: it does not decode)
Dimensions ==
    {<<0, 0>>, <<99, 500>>, <<500, 99>>, <<100, 100>>, <<2000, 2000>>,
     <<2001, 500>>, <<500, 2001>>, <<99, 2001>>}

Files ==
    {[type |-> ImagePng, size |-> s, width |-> d[1], height |-> d[2]] :
        s \in {1024 * 1024, MaxFileSize}, d \in Dimensions}
    \cup {[type |-> ApplicationPdf, size |-> 1024 * 1024, width |-> 0,
           height |-> 0],
          [type |-> <<>>, size |-> 1024 * 1024, width |-> 500,
           height |-> 500],
          [type |-> ImagePng, size |-> MaxFileSize + 1, width |-> 500,
           height |-> 500]}

\* the data-URL the reader yields for the compressed file
DataUrl(file) == <<"data:image", file.width, file.height>>

\* validateImage: the message img.onload or img.onerror sets; the promise
\* resolves to true iff that is ''
validateImageWidthOnly(file) ==
    IF file.width = 0 THEN InvalidImage
    ELSE IF file.width < MinDimension THEN TooSmallImage
    ELSE IF file.width > MaxDimension THEN TooLargeImage
    ELSE ""
validateImage(file) ==
    IF file.width = 0 \/ file.height = 0 THEN InvalidImage
    ELSE IF file.width < MinDimension \/ file.height < MinDimension
    THEN TooSmallImage
    ELSE IF file.width > MaxDimension \/ file.height > MaxDimension
    THEN TooLargeImage
    ELSE ""

\* an upload ends
Settled(file, outcome, message, calls) ==
    [file |-> file, outcome |-> outcome, message |-> message, calls |-> calls]

\* processImage(file), from handleDrop or handleFileInput, up to its first
\* await; the drop zone and the file input exist only while no preview is shown
processImage(file) ==
    /\ preview = NoLogo
    /\ Len(uploads) < MaxUploads
    /\ IF ~StartsWith(file.type, <<"i", "m", "a", "g", "e", "/">>)
       THEN /\ uploadError' = NotAnImage
            /\ settled' = Settled(file, "rejected", NotAnImage, 0)
            /\ UNCHANGED uploads
       ELSE IF file.size > MaxFileSize
       THEN /\ uploadError' = TooBig
            /\ settled' = Settled(file, "rejected", TooBig, 0)
            /\ UNCHANGED uploads
       ELSE /\ uploads' = Append(uploads, [file |-> file, at |-> "validateImage"])
            /\ UNCHANGED <<uploadError, settled>>
    /\ UNCHANGED <<storeVars, callVars, formVars, submitVars, error, ignored,
                   fieldVars, aiVars, downloadVars, preview>>

\* processImage after validateImage: the image has decoded, or has not
processImage_validated(i) ==
    /\ i \in 1..Len(uploads)
    /\ uploads[i].at = "validateImage"
    /\ uploadError' = validateImage(uploads[i].file)
    /\ IF validateImage(uploads[i].file) # ""
       THEN /\ uploads' = Without(uploads, i)
            /\ settled' = Settled(uploads[i].file, "rejected",
                                  validateImage(uploads[i].file), 0)
       ELSE /\ uploads' = [uploads EXCEPT ![i].at = "imageCompression"]
            /\ UNCHANGED settled
    /\ UNCHANGED <<storeVars, callVars, formVars, submitVars, error, ignored,
                   fieldVars, aiVars, downloadVars, preview>>

\* processImage after imageCompression: the reader is started
processImage_compressed(i) ==
    /\ i \in 1..Len(uploads)
    /\ uploads[i].at = "imageCompression"
    /\ uploads' = [uploads EXCEPT ![i].at = "readAsDataURL"]
    /\ UNCHANGED <<storeVars, callVars, formVars, submitVars, error, ignored,
                   fieldVars, aiVars, downloadVars, uploadError, preview,
                   settled>>

\* processImage: imageCompression throws
processImage_compressionError(i) ==
    /\ i \in 1..Len(uploads)
    /\ uploads[i].at = "imageCompression"
    /\ uploadError' = ProcessingError
    /\ uploads' = Without(uploads, i)
    /\ settled' = Settled(uploads[i].file, "failed", ProcessingError, 0)
    /\ UNCHANGED <<storeVars, callVars, formVars, submitVars, error, ignored,
                   fieldVars, aiVars, downloadVars, preview>>

\* reader.onloadend: the preview is set and onLogoChange (setLogo) is called
reader_onloadend(i) ==
    /\ i \in 1..Len(uploads)
    /\ uploads[i].at = "readAsDataURL"
    /\ preview' = DataUrl(uploads[i].file)
    /\ logo' = DataUrl(uploads[i].file)
    /\ uploads' = Without(uploads, i)
    /\ settled' = Settled(uploads[i].file, "accepted", "", 1)
    /\ UNCHANGED <<storeVars, callVars, formVars, submitVars, error, ignored,
                   url, orgDescription, urlPurpose, qrColor, bgColor, size,
                   aiVars, downloadVars, uploadError>>

\* handleRemove: the button on the preview
handleRemove ==
    /\ preview # NoLogo
    /\ preview' = NoLogo
    /\ logo' = NoLogo
    /\ uploadError' = ""
    /\ UNCHANGED <<storeVars, callVars, formVars, submitVars, error, ignored,
                   url, orgDescription, urlPurpose, qrColor, bgColor, size,
                   aiVars, downloadVars, uploads, settled>>

NextLogo ==
    \/ \E file \in Files : processImage(file)
    \/ \E i \in 1..Len(uploads) : processImage_validated(i)
    \/ \E i \in 1..Len(uploads) : processImage_compressed(i)
    \/ \E i \in 1..Len(uploads) : processImage_compressionError(i)
    \/ \E i \in 1..Len(uploads) : reader_onloadend(i)
    \/ handleRemove

SpecLogo == InitDownload /\ [][NextLogo]_vars

\* ------------------------------------------------------------------ claims
\* the prior list with the generator's id appended once if it was missing
Merged(ids) ==
    IF Includes(ids, QR_CODE_GENERATOR) THEN ids
    ELSE Append(ids, QR_CODE_GENERATOR)

\* call t of saveUser returns in this step, no other call having overlapped it
ReturnsSolo(t) == pc[t] # "returned" /\ pc'[t] = "returned" /\ solo[t]

\* C1: when a saveUser call that no other call overlaps returns for an email
\* that had a user row when the call started, the table has as many rows as
\* before, the returned row has the existing row's id, and its app_ids are the
\* prior list if that held the generator's id, else the prior list with the
\* generator's id appended once.
C1_ExistingEmailMerged ==
    [][\A t \in Calls :
          ReturnsSolo(t) =>
              \A i \in RowsByEmail(pre[t], CleanUserData(arg[t]).email) :
                  /\ Len(users') = Len(pre[t])
                  /\ result'[t].id = pre[t][i].id
                  /\ result'[t].app_ids = Merged(pre[t][i].app_ids)]_vars

\* a solo call has returned for an email whose row lacked the generator's id
\* and held another application's id
C1_Witness ==
    \E t \in Calls :
        /\ pc[t] = "returned" /\ solo[t]
        /\ \E i \in RowsByEmail(pre[t], CleanUserData(arg[t]).email) :
              /\ pre[t][i].app_ids = <<OTHER_APP>>
              /\ result[t].app_ids = <<OTHER_APP, QR_CODE_GENERATOR>>
              /\ result[t].id = pre[t][i].id

\* C2: no two rows of the users table share an email, whatever the
\* interleaving of saveUser calls from different tabs or sessions.
C2_EmailUnique ==
    \A i, j \in 1..Len(users) : users[i].email = users[j].email => i = j

\* C3: while no user is bound no download action has inserted a QR
\* configuration row or started towards a file, in any format, and no row or
\* download carries the id of no user.
C3_NoDownloadWithoutUser ==
    /\ user = NoRow => qr_codes = <<>> /\ downloads = <<>>
    /\ \A i \in 1..Len(downloads) : downloads[i].qrData.user_id # 0
    /\ \A i \in 1..Len(qr_codes) : qr_codes[i].user_id # 0

\* a download was asked for with no user bound
C3_Witness ==
    /\ user = NoRow
    /\ ignored = "download without user"
    /\ qr_codes = <<>>

\* the download actions whose insert succeeded
Inserted(ds) == {i \in 1..Len(ds) : ds[i].insert = "done"}

\* C4: a download action rasterizes and saves a file only after its QR
\* configuration insert has succeeded; an action whose insert fails sets the
\* error banner in that step, stops, and never produces a file; the table
\* holds one row per successful insert.
C4_InsertBeforeFile ==
    [][/\ \A i \in 1..Len(downloads') :
            /\ downloads'[i].at \in {"convert", "saved"}
                  => downloads'[i].insert = "done"
            /\ downloads'[i].file # "" => downloads'[i].insert = "done"
            /\ downloads'[i].insert = "failed"
                  => downloads'[i].file = "" /\ downloads'[i].at = "failed"
            /\ (/\ i <= Len(downloads)
                /\ downloads[i].insert = "pending"
                /\ downloads'[i].insert = "failed") => error' = DownloadError
       /\ Len(qr_codes') = Cardinality(Inserted(downloads'))]_vars

\* one download's insert has failed, with the banner set and no file, while
\* another has saved its file
C4_Witness ==
    \E i, j \in 1..Len(downloads) :
        /\ downloads[i].insert = "failed"
        /\ downloads[i].file = ""
        /\ error = DownloadError
        /\ downloads[j].file # ""

\* C5: at most one generation request is in flight, and a request for the
\* description or the purpose made while one is in flight issues no call and
\* changes nothing of the page or the store.
C5_OneGenerationInFlight ==
    [][/\ Len(aiRequests') <= 1
       /\ \A type \in Types :
            (aiRequests # <<>> /\ generateAIText(type)) =>
                UNCHANGED <<storeVars, callVars, formVars, submitVars, error,
                            fieldVars, aiVars, downloadVars, uploadVars>>]_vars

\* a request was made while another was in flight
C5_Witness ==
    /\ ignored = "generate while generating"
    /\ isGenerating
    /\ Len(aiRequests) = 1

\* call t of saveUser starts in this step
Starts(t) == pc[t] = "idle" /\ pc'[t] = "select"

\* C6: whenever the form forwards a payload (a saveUser call starts), the
\* payload is the form data, its email matches the address pattern, and its
\* EIN is unset, never empty, or matches NN-NNNNNNN; so with any other form
\* contents no call starts.
C6_ForwardedPayloadValid ==
    [][\A t \in Calls :
          Starts(t) =>
              /\ arg'[t] = [formData EXCEPT !.ein = arg'[t].ein]
              /\ EmailRegexTest(arg'[t].email)
              /\ arg'[t].ein # <<>>
              /\ arg'[t].ein = Undefined \/ EinRegexTest(arg'[t].ein)
              /\ arg'[t].ein = Undefined <=> formData.ein = <<>>
              /\ arg'[t].ein # Undefined => arg'[t].ein = formData.ein]_vars

\* a payload has been forwarded from a form with an empty EIN
C6_Witness ==
    \E t \in Calls :
        /\ pc[t] = "select"
        /\ formData.ein = <<>>
        /\ arg[t].ein = Undefined
        /\ arg[t].email = formData.email

\* C7 as stated: the EIN held in form state is empty or matches NN-NNNNNNN.
C7_EmptyOrFullEin == formData.ein = <<>> \/ EinRegexTest(formData.ein)

\* one or two digits, or two digits, a hyphen and one to seven digits
EinPrefix(ein) ==
    \/ Len(ein) <= 2 /\ AllIn(ein, 1, Len(ein), Digits)
    \/ /\ Len(ein) \in 4..10
       /\ AllIn(ein, 1, 2, Digits)
       /\ ein[3] = "-"
       /\ AllIn(ein, 4, Len(ein), Digits)

\* C7, amended: the EIN held in form state is empty, or one or two digits, or
\* two digits, a hyphen and one to seven digits; the field's error message
\* is clear exactly when the value is empty or matches NN-NNNNNNN.
C7_EinPrefixStored ==
    /\ EinPrefix(formData.ein)
    /\ einError = "" <=> (formData.ein = <<>> \/ EinRegexTest(formData.ein))

\* a partly typed EIN is held, with its error message shown
C7_Witness ==
    /\ formData.ein = <<"1", "2", "-", "1">>
    /\ einError = EinInvalid

\* the saveUser calls outstanding: started and not yet taken by the caller
Outstanding == {t \in Calls : pc[t] # "idle"}

\* C8: a submission (a saveUser call by the form) starts only with both
\* field errors clear and no submission in flight, and at most one saveUser
\* call of the form is outstanding.
C8_OneSubmission ==
    [][/\ \A t \in Calls :
            Starts(t) =>
                ~isSubmitting /\ emailError = "" /\ einError = ""
                    /\ Outstanding = {}
       /\ Cardinality({t \in Calls : pc'[t] # "idle"}) <= 1]_vars

\* a submit was asked for while a submission was in flight
C8_Witness ==
    /\ ignored = "submit while submitting"
    /\ isSubmitting
    /\ Cardinality(Outstanding) = 1

\* the file is one the claim has refused: not an image type, over 5 MB, or a
\* natural width or height below 100 or above 2000
Refused(file) ==
    \/ ~StartsWith(file.type, <<"i", "m", "a", "g", "e", "/">>)
    \/ file.size > 5 * 1024 * 1024
    \/ file.width < 100 \/ file.height < 100
    \/ file.width > 2000 \/ file.height > 2000

C10_SingleUpload ==
    /\ Len(uploads) <= 1
    /\ preview = logo
    /\ preview # NoLogo => uploadError = ""

\* C11: a saveUser call has thrown exactly when its lookup, its update or its
\* insert failed, and then it threw the store's error; a failed visit upsert
\* leaves the call returning the row it created; updateVisit called directly
\* never throws, issues no request without a user id or an app id, and
\* returns null then.
C11_OnlyUserRequestsRaise ==
    \A t \in Calls :
        /\ pc[t] = "threw" <=> failed[t] \in {"select", "update", "insert"}
        /\ pc[t] = "threw" => err[t] \in {StoreError, MultipleRows}
        /\ failed[t] = "visit" =>
               /\ pc[t] = "returned"
               /\ existingUser[t] = NoRow
               /\ result[t].id \in 1..Len(users)
               /\ result[t] = InsertedRow(SubSeq(users, 1, result[t].id - 1),
                                          CleanUserData(arg[t]))
        /\ vpc[t] \in {"idle", "upsert", "returned"}
        /\ (varg[t][1] = 0 \/ varg[t][2] = "") =>
               vpc[t] # "upsert" /\ vresult[t] = NoVisit

\* a saveUser call has returned the row it created although its visit upsert
\* failed, and a direct updateVisit call without a user id has returned null
C11_Witness ==
    /\ pc["call1"] = "returned" /\ failed["call1"] = "visit"
    /\ result["call1"] = users[Len(users)]
    /\ visits = {}
    /\ \E t \in Calls :
          vpc[t] = "returned" /\ varg[t] = <<0, QR_CODE_GENERATOR>>
              /\ vresult[t] = NoVisit

\* the field of a submission was left blank
Blank(x) == ~Truthy(x)

\* C12: when a saveUser call that no other call overlaps returns for an email
\* that had a user row when the call started, the row's organization is the
\* one stored before if the submission left the organization blank, and its
\* EIN is the one stored before if the submission left the EIN blank.
C12_BlankFieldsKept ==
    [][\A t \in Calls :
          ReturnsSolo(t) =>
              \A i \in RowsByEmail(pre[t], CleanUserData(arg[t]).email) :
                  /\ Blank(arg[t].organization) =>
                         users'[i].organization = pre[t][i].organization
                  /\ Blank(arg[t].ein) => users'[i].ein = pre[t][i].ein]_vars

\* a solo call with both fields blank has returned for an email whose row
\* held an organization and an EIN and lacked the generator's id
C12_Witness ==
    \E t \in Calls :
        /\ pc[t] = "returned" /\ solo[t]
        /\ Blank(arg[t].organization) /\ Blank(arg[t].ein)
        /\ \E i \in RowsByEmail(pre[t], CleanUserData(arg[t]).email) :
              /\ pre[t][i].app_ids = <<OTHER_APP>>
              /\ pre[t][i].organization = Org0 /\ pre[t][i].ein = Ein98
              /\ users[i].app_ids = <<OTHER_APP, QR_CODE_GENERATOR>>
              /\ users[i].organization = Org0 /\ users[i].ein = Ein98

\* the row holds the incoming value of every field the submission filled in
HoldsIncoming(row, userData) ==
    /\ Truthy(userData.name) => row.name = userData.name
    /\ Truthy(userData.organization) => row.organization = userData.organization
    /\ Truthy(userData.ein) => row.ein = userData.ein

\* C13 (as stated): when a saveUser call that no other call overlaps returns
\* for an email that had a user row when the call started, the stored row
\* holds the incoming name, organization and EIN wherever they are non-empty.
C13_IncomingFieldsMerged ==
    [][\A t \in Calls :
          ReturnsSolo(t) =>
              \A i \in RowsByEmail(pre[t], CleanUserData(arg[t]).email) :
                  HoldsIncoming(users'[i], arg[t])]_vars

\* C13 (amended): when such a call returns, the stored row holds the incoming
\* non-empty fields if the row lacked the generator's id when the call
\* started, and is the row as it was, incoming fields dropped, if it held
\* the id.
C13_MergedWhenIdAppended ==
    [][\A t \in Calls :
          ReturnsSolo(t) =>
              \A i \in RowsByEmail(pre[t], CleanUserData(arg[t]).email) :
                  IF Includes(pre[t][i].app_ids, QR_CODE_GENERATOR)
                  THEN users'[i] = pre[t][i] /\ result'[t] = pre[t][i]
                  ELSE HoldsIncoming(users'[i], arg[t])
                           /\ result'[t] = users'[i]]_vars

\* a solo call giving a name, an organization and an EIN has returned for an
\* email whose row held other values and lacked the generator's id
C13_Witness ==
    \E t \in Calls :
        /\ pc[t] = "returned" /\ solo[t]
        /\ arg[t].name = Bob /\ arg[t].organization = Org /\ arg[t].ein = Ein12
        /\ \E i \in RowsByEmail(pre[t], CleanUserData(arg[t]).email) :
              /\ pre[t][i].name = Ann /\ pre[t][i].organization = Org0
              /\ ~Includes(pre[t][i].app_ids, QR_CODE_GENERATOR)
              /\ users[i].name = Bob /\ users[i].organization = Org
              /\ users[i].ein = Ein12

\* C14: the image of a saved PDF, of positive width and height in pixels,
\* is placed with its own proportion, no wider than 7.5 and no higher than
\* 10 inches, at x = (8.5 - width) / 2 and y = (11 - height) / 2; an image
\* wider than high is placed 7.5 inches wide and 7.5 * height / width high.
C14_PdfPlacement ==
    placement # NoPlacement =>
        LET w == placement.img[1]
            h == placement.img[2]
        IN /\ w > 0 /\ h > 0
           /\ QMul(placement.width, Q(h, 1)) = QMul(placement.height, Q(w, 1))
           /\ ~QLess(Q(15, 2), placement.width)
           /\ ~QLess(Q(10, 1), placement.height)
           /\ QLess(Q(0, 1), placement.width)
           /\ placement.x = QDiv(QSub(Q(17, 2), placement.width), Q(2, 1))
           /\ placement.y = QDiv(QSub(Q(11, 1), placement.height), Q(2, 1))
           /\ w > h =>
                  /\ placement.width = Q(15, 2)
                  /\ placement.height = QMul(Q(15, 2), Q(h, w))

\* a PDF has been saved of an image of 1000 x 300 pixels, placed 7.5 inches
\* wide and 2.25 inches high at (0.5, 4.375)
C14_Witness ==
    /\ \E i \in 1..Len(downloads) : downloads[i].file = "qr-code.pdf"
    /\ placement.img = <<1000, 300>>
    /\ placement.width = <<15, 2>> /\ placement.height = <<9, 4>>
    /\ placement.x = <<1, 2>> /\ placement.y = <<35, 8>>

\* C15: every saveUser call that has returned a user row, created or found,
\* has issued a visit upsert for that user.
C15_VisitIssuedOnReturn ==
    \A t \in Calls :
        pc[t] = "returned" /\ result[t] # NoRow => Includes(log[t], "visit")

\* the text field a generation request of the type fills, and the other one,
\* after the step (Target) and before and after it (Other)
Target(type) == IF type = "description" THEN orgDescription' ELSE urlPurpose'
OtherKept(type) ==
    IF type = "description" THEN urlPurpose' = urlPurpose
    ELSE orgDescription' = orgDescription

\* n blanks
Blanks(n) == [k \in 1..n |-> " "]

\* text is content without the blanks around it ('' for no content)
Stripped(text, content) ==
    IF content = Undefined THEN text = <<>>
    ELSE /\ \E a, b \in 0..Len(content) :
               content = Blanks(a) \o text \o Blanks(b)
         /\ text # <<>> => text[1] # " " /\ text[Len(text)] # " "

\* a failed generation request: the text fields stay, the banner shows the
\* provider's message or the fallback, and the request is gone with no
\* other issued for it
FailureHandled ==
    \A i \in 1..Len(aiRequests), m \in {"", ProviderMessage} :
        generateAIText_failed(i, m) =>
            /\ orgDescription' = orgDescription /\ urlPurpose' = urlPurpose
            /\ error' = (IF m = "" THEN GenerateFallback ELSE m)
            /\ Len(aiRequests') = Len(aiRequests) - 1
            /\ aiRequests' = <<>>

\* C16 (as stated): a generation request that succeeds sets its text field
\* to exactly the completion text ('' for none) and leaves the other field;
\* one that fails leaves both fields, sets the banner and issues no call.
C16_ExactCompletionText ==
    [][/\ \A i \in 1..Len(aiRequests), c \in Contents :
            generateAIText_answered(i, c) =>
                /\ Target(aiRequests[i]) = (IF c = Undefined THEN <<>> ELSE c)
                /\ OtherKept(aiRequests[i])
       /\ FailureHandled]_vars

\* C16 (amended): a generation request that succeeds sets its text field to
\* the completion text without the blanks around it ('' for none), whatever
\* the field held, and leaves the other field and the banner; one that fails
\* leaves both fields, sets the banner and issues no call.
C16_TrimmedCompletionText ==
    [][/\ \A i \in 1..Len(aiRequests), c \in Contents :
            generateAIText_answered(i, c) =>
                /\ Stripped(Target(aiRequests[i]), c)
                /\ OtherKept(aiRequests[i])
                /\ error' = error
                /\ aiRequests' = <<>>
       /\ FailureHandled]_vars

\* a description was generated over a typed one, the purpose typed by the
\* user standing beside it
C16_Witness ==
    /\ orgDescription = <<"G">>
    /\ urlPurpose = <<"s">>
    /\ aiRequests = <<>> /\ ~isGenerating
    /\ error = ""

\* C17: a (user id, application id) pair has at most one visit row, and as
\* long as no two updateVisit calls for the pair have overlapped, the row's
\* counter is the number of calls for the pair that succeeded.
C17_CounterCountsVisits ==
    /\ \A v, w \in visits :
          v.user_id = w.user_id /\ v.app_id = w.app_id => v = w
    /\ \A key \in VisitKeys :
          key \notin raced /\ successes[key] > 0 =>
              \E v \in visits :
                  /\ <<v.user_id, v.app_id>> = key
                  /\ v.visit_count = successes[key]

\* the download actions that produced a file
Produced == {i \in 1..Len(downloads) : downloads[i].file # ""}

\* C18: the qr_codes table holds as many rows as download actions have
\* produced a file (those whose insert is done and whose file is still being
\* made apart), and each row is the configuration its action started with.
C18_RowPerProducedFile ==
    /\ Len(qr_codes) =
          Cardinality(Produced)
              + Cardinality({i \in 1..Len(downloads) : downloads[i].at = "convert"})
    /\ \A k \in 1..Len(qr_codes) :
          \E i \in 1..Len(downloads) : qr_codes[k] = downloads[i].qrData

\* C19: isSubmitting is set only while a saveUser call of the form is
\* outstanding and isGenerating only while a generation request is; once a
\* saveUser call has returned or thrown, isSubmitting becomes false, and the
\* step that settles a generation request clears isGenerating; a save that
\* threw leaves the user unbound, and no download starts without a user.
C19_FlagsTrackRequests ==
    /\ [](isSubmitting => Outstanding # {})
    /\ [](isGenerating => aiRequests # <<>>)
    /\ [](user = NoRow => downloads = <<>>)
    /\ \A t \in Calls : (pc[t] \in {"returned", "threw"}) ~> ~isSubmitting
    /\ [][/\ Len(aiRequests') < Len(aiRequests) => ~isGenerating'
          /\ \A t \in Calls :
                pc[t] = "threw" /\ pc'[t] = "idle" =>
                    user' = NoRow /\ ~isSubmitting' /\ error' # ""]_vars

\* a user save has failed while a generation request is in flight: the submit
\* button is usable again, the user is unbound and a download was refused
C19_Witness ==
    /\ error = StoreError
    /\ ~isSubmitting /\ Outstanding = {}
    /\ user = NoRow
    /\ isGenerating /\ Len(aiRequests) = 1
    /\ ignored = "download without user"

====
